---- MODULE Spec2Model ----
(***************************************************************************)
(* Variational quantum search (QAOA-style ansatz) of Island-2018.          *)
(*                                                                         *)
(* Two notebooks implement the same pipeline:                              *)
(*   - the numpy notebook:  plus_state, H_operator, B_operator, qaoa_step, *)
(*     cost_function, get_params (fixed pi/4 start), overlap, depth loop;  *)
(*   - the QIT notebook (Lecture_3): initial_state, C_operator,            *)
(*     B_operator, qaoa_step, F_function, get_params (warm start),         *)
(*     calc_n_p.                                                           *)
(* Names defined in both notebooks carry the suffix _np or _qit.           *)
(*                                                                         *)
(* Arithmetic is exact.  Angles are integers counting units of pi/4, so    *)
(* every phase exp(i*t) is a power of zeta = exp(i*pi/4) and every         *)
(* amplitude lies in Z[zeta] divided by a power of sqrt(2).                *)
(***************************************************************************)
EXTENDS Integers, Sequences, FiniteSets, TLC

(***************************************************************************)
(* Complex numbers of Z[zeta], zeta^4 = -1:                                *)
(*   <<a, b, c, d>>  is  a + b*zeta + c*zeta^2 + d*zeta^3.                 *)
(***************************************************************************)
\* a function over 1..n as the tuple of its values
Tup(f) == f \o <<>>

CZero == <<0, 0, 0, 0>>

COne == <<1, 0, 0, 0>>

\* sqrt(2) = zeta - zeta^3
CSqrt2 == <<0, 1, 0, -1>>

CAdd(x, y) == <<x[1] + y[1], x[2] + y[2], x[3] + y[3], x[4] + y[4]>>

CNeg(x) == <<-x[1], -x[2], -x[3], -x[4]>>

CSub(x, y) == <<x[1] - y[1], x[2] - y[2], x[3] - y[3], x[4] - y[4]>>

CMul(x, y) ==
    <<x[1] * y[1] - x[2] * y[4] - x[3] * y[3] - x[4] * y[2],
      x[1] * y[2] + x[2] * y[1] - x[3] * y[4] - x[4] * y[3],
      x[1] * y[3] + x[2] * y[2] + x[3] * y[1] - x[4] * y[4],
      x[1] * y[4] + x[2] * y[3] + x[3] * y[2] + x[4] * y[1]>>

\* complex conjugate: conj(zeta) = -zeta^3, conj(zeta^2) = -zeta^2
CConj(x) == <<x[1], -x[4], -x[3], -x[2]>>

CScale(k, x) == <<k * x[1], k * x[2], k * x[3], k * x[4]>>

Pow2(k) == IF k <= 0 THEN 1 ELSE 2 ^ k

\* sqrt(2)^e as a complex number, e >= 0
CSqrt2Pow(e) ==
    IF e % 2 = 0 THEN <<Pow2(e \div 2), 0, 0, 0>>
    ELSE CScale(Pow2((e - 1) \div 2), CSqrt2)

\* exp(i * t * pi/4) = zeta^t for an integer t >= 0
Phase(t) ==
    LET r == t % 8
        s == IF r < 4 THEN 1 ELSE -1
        q == r % 4
    IN  Tup([j \in 1..4 |-> IF j = q + 1 THEN s ELSE 0])

(***************************************************************************)
(* Real numbers of Z[sqrt 2] over a power of sqrt(2):                      *)
(*   [x |-> x, y |-> y, e |-> e]  is  (x + y*sqrt(2)) / sqrt(2)^e.         *)
(***************************************************************************)
RECURSIVE GeR2(_, _), R2Ge(_, _)
\* a >= b*sqrt(2), for b >= 0
GeR2(a, b) ==
    IF b = 0 THEN a >= 0
    ELSE IF a < b THEN FALSE
    ELSE R2Ge(a - b, 2 * b - a)

\* a*sqrt(2) >= b, for a >= 0
R2Ge(a, b) ==
    IF b <= 0 THEN TRUE
    ELSE IF a >= b THEN TRUE
    ELSE IF a = 0 THEN FALSE
    ELSE GeR2(2 * a - b, b - a)

\* x + y*sqrt(2) >= 0
NonNeg(x, y) ==
    IF x >= 0 /\ y >= 0 THEN TRUE
    ELSE IF x <= 0 /\ y <= 0 THEN x = 0 /\ y = 0
    ELSE IF x > 0 THEN GeR2(x, -y)
    ELSE R2Ge(y, -x)

RECURSIVE RScaleUp(_, _)
\* the same real number written over sqrt(2)^e, e >= r.e
RScaleUp(r, e) ==
    IF r.e >= e THEN r
    ELSE RScaleUp([x |-> 2 * r.y, y |-> r.x, e |-> r.e + 1], e)

RMaxE(r, s) == IF r.e >= s.e THEN r.e ELSE s.e

RLeq(r, s) ==
    LET e == RMaxE(r, s)
        a == RScaleUp(r, e)
        b == RScaleUp(s, e)
    IN  NonNeg(b.x - a.x, b.y - a.y)

REq(r, s) ==
    LET e == RMaxE(r, s)
        a == RScaleUp(r, e)
        b == RScaleUp(s, e)
    IN  a.x = b.x /\ a.y = b.y

RLess(r, s) == RLeq(r, s) /\ ~REq(r, s)

RNeg(r) == [x |-> -r.x, y |-> -r.y, e |-> r.e]

RInt(k) == [x |-> k, y |-> 0, e |-> 0]

\* real part of the scaled complex number z / sqrt(2)^e:
\* Re(a + b*zeta + c*zeta^2 + d*zeta^3) = (2a + (b - d)*sqrt(2)) / 2
Real(z, e) == [x |-> 2 * z[1], y |-> z[2] - z[4], e |-> e + 2]

(***************************************************************************)
(* Dense vectors and matrices with a common denominator sqrt(2)^e:         *)
(*   [v |-> <<z1, ..., zN>>, e |-> e]   and   [m |-> rows, e |-> e].       *)
(***************************************************************************)
RECURSIVE CSum(_)
CSum(s) == IF s = <<>> THEN CZero ELSE CAdd(Head(s), CSum(Tail(s)))

\* numpy/qit tensor (Kronecker) product of two vectors
Kron(a, b) ==
    LET la == Len(a.v)
        lb == Len(b.v)
    IN  [v |-> Tup([k \in 1..(la * lb) |->
                  CMul(a.v[((k - 1) \div lb) + 1], b.v[((k - 1) % lb) + 1])]),
         e |-> a.e + b.e]

\* matrix-vector product M.dot(s)
Dot(M, s) ==
    [v |-> Tup([i \in 1..Len(M.m) |->
              CSum(Tup([j \in 1..Len(s.v) |-> CMul(M.m[i][j], s.v[j])]))]),
     e |-> M.e + s.e]

\* inner product <a|b> = a.conj().T.dot(b), as a scaled complex number
Inner(a, b) ==
    [z |-> CSum(Tup([j \in 1..Len(a.v) |-> CMul(CConj(a.v[j]), b.v[j])])),
     e |-> a.e + b.e]

\* squared Euclidean norm of a state, a real number
NormSq(s) == LET ip == Inner(s, s) IN Real(ip.z, ip.e)

(***************************************************************************)
(* States and generators.                                                  *)
(***************************************************************************)
Dim(n) == Pow2(n)

\* single-qubit basis kets |0>, |1> (zero_state, one_state; qit.state('0'))
Ket(b) == [v |-> IF b = 0 THEN <<COne, CZero>> ELSE <<CZero, COne>>, e |-> 0]

RECURSIVE KronAllReversed(_)
KronAllReversed(ks) ==
    IF Len(ks) = 1 THEN ks[1] ELSE Kron(KronAllReversed(Tail(ks)), Head(ks))

RECURSIVE KronAll(_)
\* kron(k1, kron(k2, ...)) of a non-empty sequence of vectors
KronAll(ks) ==
    IF Len(ks) = 1 THEN ks[1] ELSE Kron(Head(ks), KronAll(Tail(ks)))

\* qit.state('0101'); np.kron(zero_state, np.kron(one_state, ...)):
\* the basis state of a non-empty bitstring
qit_state(bits) == KronAll(Tup([k \in 1..Len(bits) |-> Ket(bits[k])]))

plus_state_unnormalised(n_qubits) ==
    [v |-> Tup([j \in 1..Dim(n_qubits) |-> COne]), e |-> 0]

\* np.array([1]*(2**n_qubits)) / np.sqrt(2**n_qubits)
plus_state(n_qubits) ==
    [v |-> Tup([j \in 1..Dim(n_qubits) |-> COne]), e |-> n_qubits]

\* (qit.state('0') + qit.state('1')) / np.sqrt(2)
plus_1 == [v |-> <<COne, COne>>, e |-> 1]

RECURSIVE initial_state_loop(_, _, _)
initial_state_loop(state, i, n_qubits) ==
    IF i >= n_qubits THEN state
    ELSE initial_state_loop(Kron(state, plus_1), i + 1, n_qubits)

initial_state_unnormalised(n_qubits) ==
    initial_state_loop([v |-> <<COne, COne>>, e |-> 0], 1, n_qubits)

initial_state_from_zero(n_qubits) == initial_state_loop(plus_1, 0, n_qubits)

\* state = plus; for i in range(1, n_qubits): state = tensor(state, plus)
initial_state(n_qubits) == initial_state_loop(plus_1, 1, n_qubits)

\* np.outer(a, b): a_i * b_j, no conjugation
Outer(a, b) ==
    [m |-> Tup([i \in 1..Len(a.v) |->
              Tup([j \in 1..Len(b.v) |-> CMul(a.v[i], b.v[j])])]),
     e |-> a.e + b.e]

\* qit.state.projector(a): |a><a|, a_i * conj(a_j)
Projector(a) ==
    [m |-> Tup([i \in 1..Len(a.v) |->
              Tup([j \in 1..Len(a.v) |-> CMul(a.v[i], CConj(a.v[j]))])]),
     e |-> a.e + a.e]

MNeg(M) ==
    [m |-> Tup([i \in 1..Len(M.m) |->
              Tup([j \in 1..Len(M.m[i]) |-> CNeg(M.m[i][j])])]),
     e |-> M.e]

H_operator_positive(target_state) == Outer(target_state, target_state)

\* -np.outer(target_state, target_state)
H_operator(target_state) == MNeg(Outer(target_state, target_state))

B_operator_np_positive(n_qubits) ==
    Outer(plus_state(n_qubits), plus_state(n_qubits))

\* -np.outer(plus_state(n_qubits), plus_state(n_qubits))
B_operator_np(n_qubits) == MNeg(Outer(plus_state(n_qubits), plus_state(n_qubits)))

C_operator_positive(target_state, n_qubits) == Projector(target_state)

\* -1 * qit.state.projector(target_state)
C_operator(target_state, n_qubits) == MNeg(Projector(target_state))

B_operator_qit_positive(n_qubits) == Projector(initial_state(n_qubits))

\* -1 * qit.state.projector(initial_state(n_qubits))
B_operator_qit(n_qubits) == MNeg(Projector(initial_state(n_qubits)))

(***************************************************************************)
(* la.expm(-1j * t * G) and state.propagate(G, t) for a generator G with   *)
(* G.G = -G (the negated projector on a unit vector):                      *)
(*   exp(-i*t*G) = I - (exp(i*t) - 1) * G.                                 *)
(***************************************************************************)
expm(G, t) ==
    LET f == CSub(Phase(t), COne)
        d == CSqrt2Pow(G.e)
    IN  [m |-> Tup([i \in 1..Len(G.m) |-> Tup([j \in 1..Len(G.m[i]) |->
                  CSub(IF i = j THEN d ELSE CZero, CMul(f, G.m[i][j]))])]),
         e |-> G.e]

(***************************************************************************)
(* The numpy notebook: qaoa_step, cost_function, overlap.                  *)
(***************************************************************************)
qaoa_step_np_driver_first(state, H, n_qubits, params) ==
    LET B == B_operator_np(n_qubits)
        state1 == Dot(expm(B, params[2]), state)
    IN  Dot(expm(H, params[1]), state1)

\* B = B_operator(n_qubits); state = expm(-1j*params[0]*H).dot(state);
\* return expm(-1j*params[1]*B).dot(state)
qaoa_step_np(state, H, n_qubits, params) ==
    LET B == B_operator_np(n_qubits)
        state1 == Dot(expm(H, params[1]), state)
    IN  Dot(expm(B, params[2]), state1)

RECURSIVE cost_function_loop_reversed(_, _, _, _, _, _)
cost_function_loop_reversed(ini_state, H, n_qubits, p, params, i) ==
    IF i >= p THEN ini_state
    ELSE cost_function_loop_reversed(
             qaoa_step_np(ini_state, H, n_qubits,
                          <<params[2 * (p - 1 - i) + 1],
                            params[2 * (p - 1 - i) + 2]>>),
             H, n_qubits, p, params, i + 1)

RECURSIVE cost_function_loop(_, _, _, _, _, _)
\* for i in range(p): ini_state = qaoa_step(ini_state, H, n_qubits,
\*                                [params[2*i], params[2*i+1]])
cost_function_loop(ini_state, H, n_qubits, p, params, i) ==
    IF i >= p THEN ini_state
    ELSE cost_function_loop(
             qaoa_step_np(ini_state, H, n_qubits,
                          <<params[2 * i + 1], params[2 * i + 2]>>),
             H, n_qubits, p, params, i + 1)

\* ((ini_state.conjugate().T).dot(H.dot(ini_state))).real
Expectation(A, state) ==
    LET ip == Inner(state, Dot(A, state)) IN Real(ip.z, ip.e)

cost_function(H, n_qubits, p, params) ==
    LET ini_state == cost_function_loop(plus_state(n_qubits), H, n_qubits,
                                        p, params, 0)
    IN  [cost |-> Expectation(H, ini_state), state |-> ini_state]

\* np.real(state.conj().T.dot(np.outer(target, target).dot(state)))
overlap(target_state, state) ==
    Expectation(Outer(target_state, target_state), state)

(***************************************************************************)
(* The QIT notebook: qaoa_step, F_function, fidelity.                      *)
(***************************************************************************)
qaoa_step_qit(state, target_state, n_qubits, params) ==
    LET state1 == Dot(expm(C_operator(target_state, n_qubits), params[1]), state)
    IN  Dot(expm(B_operator_qit(n_qubits), params[2]), state1)

RECURSIVE F_function_loop(_, _, _, _, _, _)
F_function_loop(ini_state, target_state, n_qubits, p, params, i) ==
    IF i >= p THEN ini_state
    ELSE F_function_loop(
             qaoa_step_qit(ini_state, target_state, n_qubits,
                           <<params[2 * i + 1], params[2 * i + 2]>>),
             target_state, n_qubits, p, params, i + 1)

\* ini_state.ev(C_operator(target_state, n_qubits).data), ini_state
F_function(target_state, n_qubits, p, params) ==
    LET ini_state == F_function_loop(initial_state(n_qubits), target_state,
                                     n_qubits, p, params, 0)
    IN  [cost |-> Expectation(C_operator(target_state, n_qubits), ini_state),
         state |-> ini_state]

\* qit.state.fidelity(target_state, state) ** 2 = |<target|state>|^2
FidelitySq(target_state, state) ==
    LET ip == Inner(target_state, state)
    IN  Real(CMul(CConj(ip.z), ip.z), ip.e + ip.e)

(***************************************************************************)
(* Bounds of the model.                                                    *)
(***************************************************************************)
MaxQubits == 2

MaxDepth == 2

\* pi/4 is the unit of angle
PI == 4

\* (alpha, beta) pairs the optimizer's search is drawn from, layer by layer
OptPairs == {<<0, 0>>, <<PI, PI>>, <<2 * PI, PI>>, <<PI, 2 * PI>>}

\* (alpha, beta) pairs the evaluator is exercised on, layer by layer
EvalPairs == {<<0, 0>>, <<0, PI>>, <<2 * PI, 0>>, <<2 * PI, PI>>, <<PI, PI>>,
              <<1, 3>>}

\* angle vectors whose length is not 2p: 2p-2, 2p-1, 2p+1 or 2p+2 angles
WrongLengthParams(p) ==
    {Tup([j \in 1..len |-> IF (j - 1) % 2 = 0 THEN a ELSE b]) :
        len \in {2 * p - 2, 2 * p - 1, 2 * p + 1, 2 * p + 2},
        a \in {1, PI}, b \in {3, PI}}

\* the angle vectors of length 2p made of p pairs of a set
AngleVectors(pairs, p) ==
    {Tup([j \in 1..(2 * p) |-> g[(j + 1) \div 2][((j - 1) % 2) + 1]]) :
        g \in [1..p -> pairs]}

Bits(n) == [1..n -> {0, 1}]

(***************************************************************************)
(* get_params of the QIT notebook: basinhopping around L-BFGS-B.           *)
(***************************************************************************)
\* params_min = [0 for i in range(2*p)]
params_min(p) == Tup([j \in 1..(2 * p) |-> 0])

params_max_swapped(p) ==
    Tup([j \in 1..(2 * p) |-> IF (j - 1) % 2 = 1 THEN 2 * PI ELSE PI])

\* params_max = [2*np.pi if i%2==0 else np.pi for i in range(2*p)]
\* (position j of the sequence is index i = j - 1)
params_max(p) == Tup([j \in 1..(2 * p) |-> IF (j - 1) % 2 = 0 THEN 2 * PI ELSE PI])

\* bounds = [(low, high) for low, high in zip(params_min, params_max)]
InBounds(x, p) ==
    /\ Len(x) = 2 * p
    /\ \A j \in 1..(2 * p) : params_min(p)[j] <= x[j] /\ x[j] <= params_max(p)[j]

\* L-BFGS-B projects its starting point onto the bounds
Clip(x, p) ==
    Tup([j \in 1..(2 * p) |->
           IF x[j] < params_min(p)[j] THEN params_min(p)[j]
           ELSE IF x[j] > params_max(p)[j] THEN params_max(p)[j]
           ELSE x[j]])

\* def fun(x): return F_function(target_state, n_qubits, p, params=x)[0]
fun(target_state, n_qubits, p, x) == F_function(target_state, n_qubits, p, x).cost

\* the search started from the fixed guess, every angle at pi/4
get_params_cold(target_state, n_qubits, p, params_0) ==
    LET x0 == Tup([j \in 1..(2 * p) |-> PI \div 4])
        f0 == fun(target_state, n_qubits, p, x0)
    IN  {x \in AngleVectors(OptPairs, p) \cup {x0} :
           /\ InBounds(x, p)
           /\ RLeq(fun(target_state, n_qubits, p, x), f0)}

\* The points basinhopping can return: every point it keeps is the result of
\* a bounded local minimization, and the first one is the descent from
\* params_0, so result.x is in bounds and no worse than the start.
get_params_qit(target_state, n_qubits, p, params_0) ==
    LET x0 == Clip(params_0, p)
        f0 == fun(target_state, n_qubits, p, x0)
    IN  {x \in AngleVectors(OptPairs, p) \cup {x0} :
           /\ InBounds(x, p)
           /\ RLeq(fun(target_state, n_qubits, p, x), f0)}

(***************************************************************************)
(* get_params of the numpy notebook: the same search, always started from  *)
(* a fixed guess.                                                          *)
(***************************************************************************)
params_0_half(p) == Tup([j \in 1..(2 * p) |-> PI \div 2])

\* params_0 = [0.25*np.pi for i in range(2*p)]
params_0_np(p) == Tup([j \in 1..(2 * p) |-> PI \div 4])

\* def fun(x): return cost_function(H, n_qubits, p, params=x)[0]
fun_np(H, n_qubits, p, x) == cost_function(H, n_qubits, p, x).cost

get_params_np(H, n_qubits, p) ==
    LET x0 == params_0_np(p)
        f0 == fun_np(H, n_qubits, p, x0)
    IN  {x \in AngleVectors(OptPairs, p) \cup {x0} :
           /\ InBounds(x, p)
           /\ RLeq(fun_np(H, n_qubits, p, x), f0)}

(***************************************************************************)
(* State.                                                                  *)
(***************************************************************************)
VARIABLES
    pc,                  \* position in calc_n_p or in the call under study
    bits,                \* the target bitstring
    n,                   \* n_qbits
    p_steps,             \* maximum depth
    i,                   \* loop variable of calc_n_p
    params,              \* running angle vector of calc_n_p
    qaoa_approximation,  \* recorded fidelities
    p_array,             \* recorded depths, as numbers RInt(i)
    starts,              \* params_0 of every get_params call so far
    returned,            \* result of every get_params call so far
    returned_lists,      \* the list objects get_params returned, as they are now
    f_values,             \* the cost reported at every depth so far
    result,              \* value returned by calc_n_p
    ev                   \* one evaluator call, layer by layer

vars == <<pc, bits, n, p_steps, i, params, qaoa_approximation, p_array,
          starts, returned, returned_lists, f_values, result, ev>>

sweepVars == <<i, params, qaoa_approximation, p_array, starts, returned,
               returned_lists, f_values, result>>

NoEval == [impl |-> "none"]

\* params = [0.5*np.pi, 0.5*np.pi]
Seed == <<PI \div 2, PI \div 2>>

(***************************************************************************)
(* calc_n_p(target_state, n_qbits, p_steps)                                *)
(***************************************************************************)
InRangeExclusive(k, p) == 1 <= k /\ k < p

\* for i in range(1, p_steps + 1)
InRange(k, p) == 1 <= k /\ k <= p

\* calc_n_p takes its arguments as they come: n_qbits need not be the number
\* of qubits of target_state, and p_steps need not be positive
Init ==
    /\ n \in 0..MaxQubits
    /\ \E m \in 1..MaxQubits : bits \in Bits(m)
    /\ p_steps \in (-1)..MaxDepth
    /\ i = 1
    /\ params = Seed
    /\ qaoa_approximation = <<>>
    /\ p_array = <<>>
    /\ starts = <<>>
    /\ returned = <<>>
    /\ returned_lists = <<>>
    /\ f_values = <<>>
    /\ result = <<>>
    /\ ev = NoEval
    /\ pc = IF InRange(1, p_steps) THEN "get_params" ELSE "return"

\* the state of initial_state(n_qubits) and the generator of target_state
\* have the same dimension
DimsMatch(target_state, n_qubits) ==
    Len(target_state.v) = Len(initial_state(n_qubits).v)

\* get_params is called and its first evaluation of F_function propagates
\* initial_state(n) by a generator of another dimension: the call raises
OptimizeRaises ==
    /\ pc = "get_params"
    /\ ~DimsMatch(qit_state(bits), n)
    /\ starts' = Append(starts, params)
    /\ ev' = [impl |-> "none", error |-> "ValueError"]
    /\ pc' = "raised"
    /\ UNCHANGED <<bits, n, p_steps, i, params, qaoa_approximation, p_array,
                   returned, returned_lists, f_values, result>>

OptimizeFallback ==
    /\ pc = "get_params"
    /\ DimsMatch(qit_state(bits), n)
    /\ \E x \in get_params_qit(qit_state(bits), n, i, params) :
          /\ params' = IF i > 1 /\ ~RLess(fun(qit_state(bits), n, i, x),
                                          f_values[i - 1])
                        THEN params ELSE x
          /\ starts' = Append(starts, params)
          /\ returned' = Append(returned, x)
          /\ returned_lists' = Append(returned_lists, x)
    /\ pc' = "record"
    /\ UNCHANGED <<bits, n, p_steps, i, qaoa_approximation, p_array, f_values,
                   result, ev>>

\* params = get_params(target_state, p=i, n_qubits=n, params_0=params)
Optimize ==
    /\ pc = "get_params"
    /\ DimsMatch(qit_state(bits), n)
    /\ \E x \in get_params_qit(qit_state(bits), n, i, params) :
          /\ params' = x
          /\ starts' = Append(starts, params)
          /\ returned' = Append(returned, x)
          /\ returned_lists' = Append(returned_lists, x)
    /\ pc' = "record"
    /\ UNCHANGED <<bits, n, p_steps, i, qaoa_approximation, p_array, f_values,
                   result, ev>>

ExtendFront(x) == <<0, 0>> \o x

ExtendByOne(x) == x \o <<0>>

ExtendHalfPi(x) == x \o <<PI \div 2, PI \div 2>>

\* the angle vector seeding the next depth: params.extend([0, 0])
Extend(x) == x \o <<0, 0>>

RecordCopying ==
    /\ pc = "record"
    /\ LET r == F_function(qit_state(bits), n, i, params)
       IN  /\ qaoa_approximation' =
                 Append(qaoa_approximation, FidelitySq(qit_state(bits), r.state))
           /\ p_array' = Append(p_array, RInt(i))
           /\ f_values' = Append(f_values, r.cost)
    /\ params' = Extend(params)
    /\ i' = i + 1
    /\ pc' = IF InRange(i + 1, p_steps) THEN "get_params" ELSE "return"
    /\ UNCHANGED <<bits, n, p_steps, starts, returned, returned_lists, result,
                   ev>>

\* f_value, state_2 = F_function(...); append fidelity and depth; report
\* the cost; params.extend([0, 0]); next i. params is the list get_params
\* returned at this depth, and list.extend changes that list in place
Record ==
    /\ pc = "record"
    /\ LET r == F_function(qit_state(bits), n, i, params)
       IN  /\ qaoa_approximation' =
                 Append(qaoa_approximation, FidelitySq(qit_state(bits), r.state))
           /\ p_array' = Append(p_array, RInt(i))
           /\ f_values' = Append(f_values, r.cost)
    /\ params' = Extend(params)
    /\ returned_lists' = [returned_lists EXCEPT ![i] = Extend(@)]
    /\ i' = i + 1
    /\ pc' = IF InRange(i + 1, p_steps) THEN "get_params" ELSE "return"
    /\ UNCHANGED <<bits, n, p_steps, starts, returned, result, ev>>

ReturnSwapped ==
    /\ pc = "return"
    /\ result' = <<p_array, qaoa_approximation>>
    /\ pc' = "done"
    /\ UNCHANGED <<bits, n, p_steps, i, params, qaoa_approximation, p_array,
                   starts, returned, returned_lists, f_values, ev>>

\* return qaoa_approximation, p_array
Return ==
    /\ pc = "return"
    /\ result' = <<qaoa_approximation, p_array>>
    /\ pc' = "done"
    /\ UNCHANGED <<bits, n, p_steps, i, params, qaoa_approximation, p_array,
                   starts, returned, returned_lists, f_values, ev>>

Next == Optimize \/ OptimizeRaises \/ Record \/ Return

Spec == Init /\ [][Next]_vars

(***************************************************************************)
(* One call of the evaluator on arbitrary angles, layer by layer.          *)
(***************************************************************************)
InitEval ==
    /\ n \in 1..MaxQubits
    /\ bits \in Bits(n)
    /\ p_steps = 0
    /\ i = 1
    /\ params = Seed
    /\ qaoa_approximation = <<>>
    /\ p_array = <<>>
    /\ starts = <<>>
    /\ returned = <<>>
    /\ returned_lists = <<>>
    /\ f_values = <<>>
    /\ result = <<>>
    /\ pc = "eval"
    /\ \E impl \in {"np", "qit"}, p \in 1..MaxDepth :
          \E x \in AngleVectors(EvalPairs, p) \cup WrongLengthParams(p) :
             ev = [impl |-> impl, p |-> p, params |-> x, layer |-> 0,
                   state |-> IF impl = "np" THEN plus_state(n)
                             ELSE initial_state(n)]

\* params[2*i] or params[2*i+1] is past the end of the list: IndexError
EvalIndexError ==
    /\ pc = "eval"
    /\ ev.layer < ev.p
    /\ 2 * ev.layer + 2 > Len(ev.params)
    /\ pc' = "raised"
    /\ ev' = [impl |-> ev.impl, p |-> ev.p, params |-> ev.params,
              layer |-> ev.layer, state |-> ev.state, error |-> "IndexError"]
    /\ UNCHANGED <<bits, n, p_steps>>
    /\ UNCHANGED sweepVars

\* one pass of the loop body of cost_function / F_function
EvalLayer ==
    /\ pc = "eval"
    /\ ev.layer < ev.p
    /\ 2 * ev.layer + 2 <= Len(ev.params)
    /\ LET ab == <<ev.params[2 * ev.layer + 1], ev.params[2 * ev.layer + 2]>>
           t == qit_state(bits)
       IN  ev' = [ev EXCEPT
                   !.layer = @ + 1,
                   !.state = IF ev.impl = "np"
                             THEN qaoa_step_np(ev.state, H_operator(t), n, ab)
                             ELSE qaoa_step_qit(ev.state, t, n, ab)]
    /\ UNCHANGED <<pc, bits, n, p_steps>>
    /\ UNCHANGED sweepVars

\* the value the call returns
EvalReturn ==
    /\ pc = "eval"
    /\ ev.layer = ev.p
    /\ LET t == qit_state(bits)
           r == IF ev.impl = "np"
                THEN cost_function(H_operator(t), n, ev.p, ev.params)
                ELSE F_function(t, n, ev.p, ev.params)
       IN  ev' = [impl |-> ev.impl, p |-> ev.p, params |-> ev.params,
                  layer |-> ev.layer, state |-> ev.state,
                  cost |-> r.cost, final |-> r.state]
    /\ pc' = "evaluated"
    /\ UNCHANGED <<bits, n, p_steps>>
    /\ UNCHANGED sweepVars

NextEval == EvalLayer \/ EvalIndexError \/ EvalReturn

SpecEval == InitEval /\ [][NextEval]_vars

(***************************************************************************)
(* One call of a constructor: the uniform superposition, a generator, or   *)
(* the basis state of a bitstring.                                         *)
(***************************************************************************)
MaxCtorQubits == 4

MaxBits == 4

\* the imaginary unit, zeta^2
CI == <<0, 0, 1, 0>>

\* unit-norm one-qubit vectors with real and with complex entries
OneQubitVectors ==
    {Ket(0), Ket(1), plus_1,
     [v |-> <<COne, CNeg(COne)>>, e |-> 1],
     [v |-> <<COne, CI>>, e |-> 1],
     [v |-> <<CI, COne>>, e |-> 1],
     [v |-> <<<<0, 1, 0, 0>>, CZero>>, e |-> 0]}

\* unit-norm vectors of one and two qubits
TestVectors ==
    OneQubitVectors \cup {Kron(a, b) : a, b \in OneQubitVectors}

\* unit-norm input states of one layer on k qubits
LayerStates(k) ==
    {plus_state(k)} \cup {v \in TestVectors : Len(v.v) = Dim(k)}

\* pairs of angles (a, b) of one layer
LayerPairs == {<<1, 3>>, <<PI, PI>>, <<0, PI>>, <<2, 0>>}

\* driver generators a caller of the propagator may hold: the one of the
\* uniform state and the one of the basis state 0...0
Drivers(k) ==
    {MNeg(Projector(plus_state(k))),
     MNeg(Projector(qit_state(Tup([j \in 1..k |-> 0]))))}

\* the target of the notebooks: s = |0101>, qit.state('0101')
GroverTarget == <<0, 1, 0, 1>>

InitCall ==
    /\ n = 1
    /\ bits = <<0>>
    /\ p_steps = 0
    /\ i = 1
    /\ params = Seed
    /\ qaoa_approximation = <<>>
    /\ p_array = <<>>
    /\ starts = <<>>
    /\ returned = <<>>
    /\ returned_lists = <<>>
    /\ f_values = <<>>
    /\ result = <<>>
    /\ pc = "call"
    /\ \/ \E op \in {"plus_state", "initial_state"}, k \in (-1)..MaxCtorQubits :
             ev = [op |-> op, n |-> k]
       \/ \E op \in {"H_operator", "C_operator"}, v \in TestVectors :
             ev = [op |-> op, v |-> v]
       \/ \E op \in {"B_operator_np", "B_operator_qit"}, k \in 1..MaxQubits :
             ev = [op |-> op, n |-> k]
       \/ \E k \in 1..MaxBits : \E b \in Bits(k) :
             ev = [op |-> "qit_state", bits |-> b]
       \/ \E op \in {"qaoa_step_np", "qaoa_step_qit"}, k \in 1..MaxQubits :
             \E b \in Bits(k), st \in LayerStates(k), ab \in LayerPairs,
                G2 \in Drivers(k) :
                ev = [op |-> op, n |-> k, bits |-> b, state |-> st,
                      params |-> ab, G2 |-> G2]
       \/ \E op \in {"cost_function", "F_function"}, p \in {1, 2} :
             \E b \in Bits(Len(GroverTarget)) :
                ev = [op |-> op, bits |-> b, p |-> p,
                      params |-> Tup([j \in 1..(2 * p) |-> PI])]

\* plus_state(n_qubits): [1]*(2**n_qubits) is a TypeError when 2**n_qubits is
\* the float of a negative exponent; 2**0 = 1 gives the one-entry vector
CallPlusState ==
    /\ pc = "call"
    /\ ev.op = "plus_state"
    /\ IF ev.n < 0
       THEN /\ pc' = "raised"
            /\ ev' = [op |-> ev.op, n |-> ev.n, error |-> "TypeError"]
       ELSE /\ pc' = "returned"
            /\ ev' = [op |-> ev.op, n |-> ev.n, out |-> plus_state(ev.n)]
    /\ UNCHANGED <<bits, n, p_steps>>
    /\ UNCHANGED sweepVars

\* initial_state(n_qubits): range(1, n_qubits) is empty for n_qubits <= 1
CallInitialState ==
    /\ pc = "call"
    /\ ev.op = "initial_state"
    /\ pc' = "returned"
    /\ ev' = [op |-> ev.op, n |-> ev.n, out |-> initial_state(ev.n)]
    /\ UNCHANGED <<bits, n, p_steps>>
    /\ UNCHANGED sweepVars

\* H_operator(v), C_operator(v, n_qubits), B_operator(n_qubits)
CallGenerator ==
    /\ pc = "call"
    /\ ev.op \in {"H_operator", "C_operator", "B_operator_np", "B_operator_qit"}
    /\ pc' = "returned"
    /\ ev' = CASE ev.op = "H_operator" ->
                    [op |-> ev.op, v |-> ev.v, G |-> H_operator(ev.v)]
               [] ev.op = "C_operator" ->
                    [op |-> ev.op, v |-> ev.v,
                     G |-> C_operator(ev.v, IF Len(ev.v.v) = 2 THEN 1 ELSE 2)]
               [] ev.op = "B_operator_np" ->
                    [op |-> ev.op, v |-> plus_state(ev.n),
                     G |-> B_operator_np(ev.n)]
               [] ev.op = "B_operator_qit" ->
                    [op |-> ev.op, v |-> initial_state(ev.n),
                     G |-> B_operator_qit(ev.n)]
    /\ UNCHANGED <<bits, n, p_steps>>
    /\ UNCHANGED sweepVars

\* qit.state(bitstring) / the np.kron chain of zero_state and one_state
CallState ==
    /\ pc = "call"
    /\ ev.op = "qit_state"
    /\ pc' = "returned"
    /\ ev' = [op |-> ev.op, bits |-> ev.bits, out |-> qit_state(ev.bits)]
    /\ UNCHANGED <<bits, n, p_steps>>
    /\ UNCHANGED sweepVars

\* qaoa_step(state, H, n_qubits, params) of the numpy notebook and
\* qaoa_step(state, target_state, n_qubits, params) of the QIT notebook:
\* neither takes a driver generator
CallLayer ==
    /\ pc = "call"
    /\ ev.op \in {"qaoa_step_np", "qaoa_step_qit"}
    /\ pc' = "returned"
    /\ LET t == qit_state(ev.bits)
           r == IF ev.op = "qaoa_step_np"
                THEN qaoa_step_np(ev.state, H_operator(t), ev.n, ev.params)
                ELSE qaoa_step_qit(ev.state, t, ev.n, ev.params)
       IN  ev' = [op |-> ev.op, n |-> ev.n, bits |-> ev.bits,
                  state |-> ev.state, params |-> ev.params, G2 |-> ev.G2,
                  out |-> r]
    /\ UNCHANGED <<bits, n, p_steps>>
    /\ UNCHANGED sweepVars

\* cost_function(H_operator(s), 4, p, params) and
\* F_function(qit.state('0101'), 4, p, params) with every angle at pi
CallEvaluator ==
    /\ pc = "call"
    /\ ev.op \in {"cost_function", "F_function"}
    /\ pc' = "returned"
    /\ LET t == qit_state(ev.bits)
           r == IF ev.op = "cost_function"
                THEN cost_function(H_operator(t), Len(ev.bits), ev.p, ev.params)
                ELSE F_function(t, Len(ev.bits), ev.p, ev.params)
       IN  ev' = [op |-> ev.op, bits |-> ev.bits, p |-> ev.p,
                  params |-> ev.params, cost |-> r.cost, final |-> r.state]
    /\ UNCHANGED <<bits, n, p_steps>>
    /\ UNCHANGED sweepVars

NextCall ==
    CallPlusState \/ CallInitialState \/ CallGenerator \/ CallState
        \/ CallLayer \/ CallEvaluator

SpecCall == InitCall /\ [][NextCall]_vars

(***************************************************************************)
(* The depth loop of the numpy notebook: for i in range(1, 6), each depth  *)
(* optimized on its own; MaxDepth stands for the 5 depths of the notebook  *)
(* and MaxQubits for its 4 qubits.                                         *)
(***************************************************************************)
InitNp ==
    /\ n \in 1..MaxQubits
    /\ bits \in Bits(n)
    /\ p_steps = MaxDepth
    /\ i = 1
    /\ params = <<>>
    /\ qaoa_approximation = <<>>
    /\ p_array = <<>>
    /\ starts = <<>>
    /\ returned = <<>>
    /\ returned_lists = <<>>
    /\ f_values = <<>>
    /\ result = <<>>
    /\ ev = NoEval
    /\ pc = "np_get_params"

\* the inner call of the loop body: get_params(H_operator(s), 4, i)
NpOptimize ==
    /\ pc = "np_get_params"
    /\ \E x \in get_params_np(H_operator(qit_state(bits)), n, i) :
          /\ params' = x
          /\ starts' = Append(starts, params_0_np(i))
          /\ returned' = Append(returned, x)
          /\ returned_lists' = Append(returned_lists, x)
    /\ pc' = "np_evaluate"
    /\ UNCHANGED <<bits, n, p_steps, i, qaoa_approximation, p_array, f_values,
                   result, ev>>

\* st = cost_function(H_operator(s), 4, i, <the list get_params returned>)[1]
NpEvaluate ==
    /\ pc = "np_evaluate"
    /\ LET r == cost_function(H_operator(qit_state(bits)), n, i, params)
       IN  ev' = [impl |-> "np", st |-> r.state, cost |-> r.cost]
    /\ pc' = "np_append"
    /\ UNCHANGED <<bits, n, p_steps>>
    /\ UNCHANGED sweepVars

\* p_array.append(i); overlap_array.append(overlap(s, st)); next i
NpAppend ==
    /\ pc = "np_append"
    /\ p_array' = Append(p_array, RInt(i))
    /\ qaoa_approximation' =
          Append(qaoa_approximation, overlap(qit_state(bits), ev.st))
    /\ f_values' = Append(f_values, ev.cost)
    /\ i' = i + 1
    /\ pc' = IF InRange(i + 1, p_steps) THEN "np_get_params" ELSE "np_done"
    /\ UNCHANGED <<bits, n, p_steps, params, starts, returned, returned_lists,
                   result, ev>>

NextNp == NpOptimize \/ NpEvaluate \/ NpAppend

SpecNp == InitNp /\ [][NextNp]_vars

(***************************************************************************)
(* Properties of the depth sweep (specification Spec).                     *)
(***************************************************************************)
target == qit_state(bits)

\* C1: the optimizer call for depth 1 starts from the 2-element seed, and
\* the call for every depth p >= 2 starts from the vector returned for
\* depth p-1 followed by two zero angles, of length 2p.
C1_WarmStartThreaded ==
    /\ Len(starts) >= 1 => starts[1] = Seed /\ Len(starts[1]) = 2
    /\ \A p \in 2..Len(starts) :
          /\ starts[p] = returned[p - 1] \o <<0, 0>>
          /\ Len(starts[p]) = 2 * p

C1_Witness ==
    /\ Len(starts) >= 2
    /\ returned[1] # Seed
    /\ returned[1] # <<0, 0>>

\* C2: the optimized cost recorded at depth p+1 is never greater than the
\* optimized cost recorded at depth p.
C2_CostNonIncreasing ==
    \A p \in 1..(Len(f_values) - 1) : RLeq(f_values[p + 1], f_values[p])

C2_Witness ==
    /\ Len(f_values) >= 2
    /\ RLess(f_values[2], f_values[1])

\* C3: the sweep records two aligned sequences; the depths are 1, 2, ... in
\* increasing order, the k-th fidelity is the squared overlap with the target
\* of the state the evaluator returns for the 2k angles the optimizer
\* returned at depth k, and on return both sequences have length P.
C3_AlignedSequences ==
    /\ Len(qaoa_approximation) = Len(p_array)
    /\ \A k \in 1..Len(p_array) :
          /\ p_array[k] = RInt(k)
          /\ Len(returned[k]) = 2 * k
          /\ qaoa_approximation[k] =
                FidelitySq(target, F_function(target, n, k, returned[k]).state)
    /\ (pc = "done" /\ p_steps >= 1) =>
          /\ Len(p_array) = p_steps
          /\ Len(qaoa_approximation) = p_steps

C3_Witness ==
    /\ pc = "done"
    /\ p_steps = MaxDepth
    /\ Len(returned[2]) = 4
    /\ SubSeq(returned[2], 1, 2) # returned[1]

\* two sequences of numbers with equal lengths and equal values
SeqREq(a, b) ==
    /\ Len(a) = Len(b)
    /\ \A k \in 1..Len(a) : REq(a[k], b[k])

\* C4 as stated: the entry point returns the pair (depths, fidelities).
C4_ReturnsDepthsFirst ==
    (pc = "done" /\ p_steps >= 1) =>
        /\ SeqREq(result[1], Tup([k \in 1..p_steps |-> RInt(k)]))
        /\ SeqREq(result[2], qaoa_approximation)

\* C4 as amended: the entry point returns the pair (fidelities, depths); the
\* first component is the sequence of fidelities, the second the depths 1..P.
C4_ReturnsFidelitiesFirst ==
    (pc = "done" /\ p_steps >= 1) =>
        /\ SeqREq(result[2], Tup([k \in 1..p_steps |-> RInt(k)]))
        /\ Len(result[1]) = p_steps
        /\ \A k \in 1..p_steps :
              REq(result[1][k],
                 FidelitySq(target, F_function(target, n, k, returned[k]).state))

C4_Witness == pc = "done" /\ p_steps = MaxDepth /\ Len(result[2]) = MaxDepth

\* the box [0, 2*pi] on even (alpha) indices and [0, pi] on odd (beta) indices
InBox(x) ==
    \A j \in 1..Len(x) :
        /\ 0 <= x[j]
        /\ (j - 1) % 2 = 0 => x[j] <= 8
        /\ (j - 1) % 2 = 1 => x[j] <= 4

\* C5: every angle vector passed to the optimizer as a start and every angle
\* vector it returns lies in the box, by index parity.
C5_BoxConstraints ==
    /\ \A k \in 1..Len(starts) : InBox(starts[k])
    /\ \A k \in 1..Len(returned) : InBox(returned[k])

C5_Witness ==
    /\ Len(starts) >= 2
    /\ returned[2] = <<8, 4, 4, 4>>
    /\ starts[2][3] = 0

\* C7: every recorded fidelity lies in [0, 1] and is the negation of the
\* cost the evaluator returned for the same angles.
C7_FidelityIsMinusCost ==
    \A k \in 1..Len(qaoa_approximation) :
        /\ RLeq(RInt(0), qaoa_approximation[k])
        /\ RLeq(qaoa_approximation[k], RInt(1))
        /\ REq(qaoa_approximation[k], RNeg(f_values[k]))

C7_Witness ==
    /\ Len(qaoa_approximation) >= 2
    /\ RLess(RInt(0), qaoa_approximation[1])
    /\ RLess(qaoa_approximation[1], RInt(1))
    /\ REq(qaoa_approximation[2], RInt(1))

(***************************************************************************)
(* Properties of the evaluator (specification SpecEval).                   *)
(***************************************************************************)
\* C6: the cost returned by the evaluator lies in [-1, 0].
C6_CostInRange ==
    pc = "evaluated" =>
        /\ RLeq(RInt(-1), ev.cost)
        /\ RLeq(ev.cost, RInt(0))

C6_Witness ==
    /\ pc = "evaluated"
    /\ ev.p = 2
    /\ ev.params[1] = 1
    /\ RLess(RInt(-1), ev.cost)
    /\ RLess(ev.cost, RInt(0))

\* C8: the state has unit norm before the first layer, after each of the p
\* layers, and as returned by the evaluator.
C8_UnitNorm ==
    /\ pc \in {"eval", "evaluated"} => REq(NormSq(ev.state), RInt(1))
    /\ pc = "evaluated" => REq(NormSq(ev.final), RInt(1)) /\ ev.final = ev.state

C8_Witness ==
    /\ pc = "eval"
    /\ ev.layer = 2
    /\ ev.params[1] = 1
    /\ ev.params[3] = 1

\* the four pairs with alpha in {0, 2*pi} and beta in {0, pi}
BoundaryPairs == {<<0, 0>>, <<0, PI>>, <<2 * PI, 0>>, <<2 * PI, PI>>}

\* C11: at depth 1 with a boundary pair of angles the evaluator never raises
\* an error, its single layer reads both angles of the pair, and the final
\* state it returns has unit norm.
C11_BoundaryAnglesEvaluate ==
    (pc \in {"eval", "evaluated", "raised"} /\ ev.p = 1
        /\ ev.params \in BoundaryPairs) =>
        /\ pc # "raised"
        /\ 2 * ev.layer <= Len(ev.params)
        /\ pc = "evaluated" =>
              /\ ev.layer = 1
              /\ REq(NormSq(ev.final), RInt(1))

C11_Witness ==
    /\ pc = "evaluated"
    /\ ev.p = 1
    /\ ev.params = <<2 * PI, PI>>

\* C18 as stated: an angle vector whose length is not 2p is rejected, never
\* evaluated, whether it is shorter or longer than 2p.
C18_WrongLengthRejected ==
    (pc \in {"eval", "evaluated", "raised"} /\ Len(ev.params) # 2 * ev.p) =>
        pc # "evaluated"

(***************************************************************************)
(* Properties of the constructors (specification SpecCall).                *)
(***************************************************************************)
\* C12: for every n >= 1 the uniform-superposition constructor returns a
\* vector of exactly 2^n entries, all equal, whose squares sum to 1.
C12_UniformSuperposition ==
    (pc = "returned" /\ ev.op \in {"plus_state", "initial_state"}
        /\ ev.n >= 1) =>
        /\ Len(ev.out.v) = 2 ^ ev.n
        /\ \A j \in 1..Len(ev.out.v) : ev.out.v[j] = ev.out.v[1]
        /\ REq(NormSq(ev.out), RInt(1))

C12_Witness ==
    /\ pc = "returned"
    /\ ev.op = "initial_state"
    /\ ev.n = 3
    /\ Len(ev.out.v) = 8

\* C19 as stated: for n < 1, zero included, the uniform-superposition
\* constructor never returns a vector.
C19_RejectsBelowOneQubit ==
    (ev.op \in {"plus_state", "initial_state"} /\ ev.n < 1) =>
        pc # "returned"

\* equality of two scaled complex numbers x / sqrt(2)^d and y / sqrt(2)^e
ScaledEq(x, d, y, e) == CMul(x, CSqrt2Pow(e)) = CMul(y, CSqrt2Pow(d))

\* equality of two scaled vectors
VecEq(a, b) ==
    /\ Len(a.v) = Len(b.v)
    /\ \A j \in 1..Len(a.v) : ScaledEq(a.v[j], a.e, b.v[j], b.e)

VNeg(a) == [v |-> Tup([j \in 1..Len(a.v) |-> CNeg(a.v[j])]), e |-> a.e]

IsZeroVector(a) == \A j \in 1..Len(a.v) : a.v[j] = CZero

GeneratorOps == {"H_operator", "C_operator", "B_operator_np", "B_operator_qit"}

\* C13 as stated: for every state vector v of length N, complex entries
\* included, the generator builder returns the N x N matrix whose entry (i, j)
\* is -(v_i * conj(v_j)), which is Hermitian.
C13_NegatedOuterProduct ==
    (pc = "returned" /\ ev.op \in GeneratorOps) =>
        LET N == Len(ev.v.v)
        IN  /\ Len(ev.G.m) = N
            /\ \A r \in 1..N : Len(ev.G.m[r]) = N
            /\ \A r, c \in 1..N :
                  /\ ScaledEq(ev.G.m[r][c], ev.G.e,
                              CNeg(CMul(ev.v.v[r], CConj(ev.v.v[c]))),
                              2 * ev.v.e)
                  /\ ev.G.m[r][c] = CConj(ev.G.m[c][r])

\* C14 as stated: a generator G built from a unit-norm vector v maps v to -v
\* and maps every vector orthogonal to v to zero.
C14_NegatedProjectorAction ==
    (pc = "returned" /\ ev.op \in GeneratorOps) =>
        /\ VecEq(Dot(ev.G, ev.v), VNeg(ev.v))
        /\ \A w \in TestVectors :
              (Len(w.v) = Len(ev.v.v) /\ Inner(ev.v, w).z = CZero) =>
                  IsZeroVector(Dot(ev.G, w))

RECURSIVE BinaryValue(_)
\* the number a bitstring writes in binary, most significant bit first
BinaryValue(b) ==
    IF b = <<>> THEN 0
    ELSE 2 * BinaryValue(SubSeq(b, 1, Len(b) - 1)) + b[Len(b)]

\* C15: the target state of a bitstring of n bits has 2^n entries, a single
\* entry 1 at the index the bitstring writes in binary, most significant bit
\* first, and 0 everywhere else.
C15_BasisStateIndex ==
    (pc = "returned" /\ ev.op = "qit_state") =>
        /\ Len(ev.out.v) = 2 ^ Len(ev.bits)
        /\ ev.out.e = 0
        /\ \A k \in 1..Len(ev.out.v) :
              ev.out.v[k] = IF k = BinaryValue(ev.bits) + 1 THEN COne ELSE CZero

C15_Witness ==
    /\ pc = "returned"
    /\ ev.op = "qit_state"
    /\ ev.bits = <<0, 1, 0, 1>>
    /\ Len(ev.out.v) = 16
    /\ ev.out.v[6] = COne

(***************************************************************************)
(* The depth sweep on arguments it does not check (specification Spec).    *)
(***************************************************************************)
\* C16 as stated: called with a maximum depth below 1, the depth sweep fails
\* at its entry and returns no result.
C16_RejectsDepthBelowOne == p_steps < 1 => pc # "done"

\* C17 as stated: called with a target whose number of qubits is not
\* n_qubits (and a maximum depth of at least 1), the depth sweep fails at its
\* entry: the optimizer is never called and no result is returned.
C17_RejectsQubitMismatch ==
    (Len(bits) # n /\ p_steps >= 1) => (starts = <<>> /\ pc # "done")

\* C20 as stated: when the angles returned at a depth do not improve on the
\* cost of the depth before, the angles threaded forward are the previous
\* best angles padded with two zeros (and then extended for the next depth).
C20_FallsBackToPaddedBest ==
    LET k == Len(f_values)
    IN  (k >= 2 /\ pc \in {"get_params", "return", "done"}
            /\ ~RLess(fun(target, n, k, returned[k]), f_values[k - 1])) =>
            params = Extend(Extend(returned[k - 1]))

\* C20, amended: there is no fallback. The angles recorded and threaded
\* forward are the ones the optimizer returned, also when they do not improve
\* on the depth before; their cost then equals the cost of the depth before.
C20_ThreadsReturnedAngles ==
    LET k == Len(f_values)
    IN  (k >= 2 /\ pc \in {"get_params", "return", "done"}
            /\ ~RLess(fun(target, n, k, returned[k]), f_values[k - 1])) =>
            /\ params = Extend(returned[k])
            /\ REq(f_values[k], fun(target, n, k, returned[k]))
            /\ REq(f_values[k], f_values[k - 1])

C20_Witness ==
    /\ Len(f_values) = 2
    /\ pc = "done"
    /\ REq(f_values[2], f_values[1])
    /\ returned[2] # Extend(returned[1])

\* C22 as stated: a list returned by get_params is never modified afterwards;
\* the list returned at depth k keeps its 2k elements.
C22_ReturnedVectorUnmodified ==
    \A k \in 1..Len(returned_lists) :
        /\ returned_lists[k] = returned[k]
        /\ Len(returned_lists[k]) = 2 * k

\* C22, amended: the sweep extends the returned list in place. Once depth k
\* is recorded, the list returned at depth k holds its 2k optimized angles,
\* unchanged, followed by two zeros, and that list is the start of depth k+1.
C22_ReturnedListExtendedInPlace ==
    \A k \in 1..Len(returned_lists) :
        /\ SubSeq(returned_lists[k], 1, 2 * k) = returned[k]
        /\ k <= Len(f_values) =>
              /\ returned_lists[k] = returned[k] \o <<0, 0>>
              /\ k < Len(starts) => starts[k + 1] = returned_lists[k]
        /\ k > Len(f_values) => returned_lists[k] = returned[k]

C22_Witness ==
    /\ Len(starts) = 2
    /\ returned[1] = <<PI, PI>>
    /\ returned_lists[1] = <<PI, PI, 0, 0>>
    /\ starts[2] = returned_lists[1]

\* C26: in every optimizer call of the sweep the start vector has exactly 2p
\* angles for the depth p of the call, so has every vector the objective is
\* evaluated on and the vector the optimizer returns, and the driver's own
\* evaluator call at depth p is on a vector of 2p angles.
C26_AngleVectorLengths ==
    /\ \A k \in 1..Len(starts) :
          /\ Len(starts[k]) = 2 * k
          /\ Len(Clip(starts[k], k)) = 2 * k
          /\ \A x \in AngleVectors(OptPairs, k) : Len(x) = 2 * k
    /\ \A k \in 1..Len(returned) : Len(returned[k]) = 2 * k
    /\ pc \in {"get_params", "record"} => Len(params) = 2 * i

C26_Witness ==
    /\ pc = "record"
    /\ i = 2
    /\ Len(starts[2]) = 4
    /\ Len(params) = 4

(***************************************************************************)
(* Properties of the numpy depth loop (specification SpecNp).              *)
(***************************************************************************)
\* C27: without a warm start the search at every depth p begins at the vector
\* of 2p angles all equal to pi/4, whatever the earlier depths returned.
C27_ColdStartQuarterPi ==
    \A k \in 1..Len(starts) :
        /\ Len(starts[k]) = 2 * k
        /\ \A j \in 1..(2 * k) : 4 * starts[k][j] = PI
        /\ k >= 2 => starts[k] # returned[k - 1] \o <<0, 0>>

C27_Witness ==
    /\ Len(starts) = 2
    /\ returned[1] = <<PI, PI>>
    /\ starts[2] = <<1, 1, 1, 1>>

(***************************************************************************)
(* Properties of one layer (specification SpecCall).                       *)
(***************************************************************************)
LayerOps == {"qaoa_step_np", "qaoa_step_qit"}

\* exp(-i*a*G1) for G1 = -|w><w| multiplies the amplitude of the target index
\* w by exp(i*a); exp(-i*b*G2) for G2 = -|+><+| then adds (exp(i*b) - 1)
\* times the mean amplitude to every entry. Entries are scaled by N = 2^k.
LayerByAmplitudes(st, w, k, a, b) ==
    LET N == Len(st.v)
        s1 == Tup([j \in 1..N |->
                     IF j = w THEN CMul(Phase(a), st.v[j]) ELSE st.v[j]])
        sum == CSum(s1)
    IN  [v |-> Tup([j \in 1..N |->
                 CAdd(CScale(N, s1[j]), CMul(CSub(Phase(b), COne), sum))]),
         e |-> st.e + 2 * k]

MarkingOf(b) == MNeg(Projector(qit_state(b)))

\* C25 as stated: the layer uses the driver generator G2 its caller holds:
\* its result is exp(-i*b*G2).exp(-i*a*G1).s for that G2.
C25_UsesSuppliedDriver ==
    (pc = "returned" /\ ev.op \in LayerOps) =>
        VecEq(ev.out,
              Dot(expm(ev.G2, ev.params[2]),
                  Dot(expm(MarkingOf(ev.bits), ev.params[1]), ev.state)))

\* C25, amended: the layer takes no driver generator. It derives the driver
\* from the qubit count n, as minus the projector on the uniform state of n
\* qubits, whatever driver its caller holds.
C25_DerivesDriverFromN ==
    (pc = "returned" /\ ev.op \in LayerOps) =>
        VecEq(ev.out,
              Dot(expm(MNeg(Projector(plus_state(ev.n))), ev.params[2]),
                  Dot(expm(MarkingOf(ev.bits), ev.params[1]), ev.state)))

C25_Witness ==
    /\ pc = "returned"
    /\ ev.op \in LayerOps
    /\ ev.n = 2
    /\ ev.G2 # MNeg(Projector(plus_state(2)))
    /\ ev.params = <<PI, PI>>
    /\ ~VecEq(ev.out, ev.state)

(***************************************************************************)
(* Properties of the evaluator's algorithm (specification SpecEval).       *)
(***************************************************************************)
RECURSIVE LayersByAmplitudes(_, _, _, _)
\* the uniform superposition of k qubits followed by the first m layers, in
\* index order, layer j using the pair (x[2j-1], x[2j]) counted from 1
LayersByAmplitudes(x, w, k, m) ==
    IF m = 0 THEN [v |-> Tup([j \in 1..(2 ^ k) |-> COne]), e |-> k]
    ELSE LayerByAmplitudes(LayersByAmplitudes(x, w, k, m - 1), w, k,
                           x[2 * m - 1], x[2 * m])

\* C23: on an angle vector of length 2p the evaluator starts from the uniform
\* superposition, applies the p layers in index order with the pairs
\* (angles[2i], angles[2i+1]), returns the state after the last layer, and
\* returns as cost the real expectation of the marking generator in it.
C23_EvaluatorAlgorithm ==
    (pc \in {"eval", "evaluated"} /\ Len(ev.params) = 2 * ev.p) =>
        LET w == BinaryValue(bits) + 1
        IN  /\ VecEq(ev.state, LayersByAmplitudes(ev.params, w, n, ev.layer))
            /\ pc = "evaluated" =>
                  /\ ev.layer = ev.p
                  /\ VecEq(ev.final, LayersByAmplitudes(ev.params, w, n, ev.p))
                  /\ REq(ev.cost,
                         RNeg(Real(CMul(CConj(ev.final.v[w]), ev.final.v[w]),
                                   2 * ev.final.e)))

C23_Witness ==
    /\ pc = "evaluated"
    /\ ev.impl = "np"
    /\ ev.p = 2
    /\ ev.params = <<1, 3, PI, PI>>
    /\ RLess(ev.cost, RInt(0))

\* C28: a further layer with both angles 0 changes nothing: at depth p+1 on x
\* followed by (0, 0) the evaluator returns the final state and the cost it
\* returns at depth p on x.
C28_ZeroLayerIsIdentity ==
    (pc = "evaluated" /\ Len(ev.params) = 2 * ev.p /\ ev.p < MaxDepth) =>
        LET t == qit_state(bits)
            r == IF ev.impl = "np"
                 THEN cost_function(H_operator(t), n, ev.p + 1, Extend(ev.params))
                 ELSE F_function(t, n, ev.p + 1, Extend(ev.params))
        IN  /\ VecEq(r.state, ev.final)
            /\ REq(r.cost, ev.cost)

C28_Witness ==
    /\ pc = "evaluated"
    /\ ev.impl = "qit"
    /\ ev.p = 1
    /\ ev.params = <<1, 3>>
    /\ n = 2

(***************************************************************************)
(* Grover's values (specification SpecCall).                               *)
(***************************************************************************)
\* C29: on 4 qubits with every angle equal to pi the evaluator's cost is
\* exactly -121/256 at depth 1 and exactly -(244/256)^2 = -59536/65536 at
\* depth 2, for the target 0101 as for every other 4-bit target.
C29_GroverCosts ==
    (pc = "returned" /\ ev.op \in {"cost_function", "F_function"}) =>
        /\ ev.p = 1 => REq(ev.cost, [x |-> -121, y |-> 0, e |-> 16])
        /\ ev.p = 2 => REq(ev.cost, [x |-> -(244 * 244), y |-> 0, e |-> 32])

C29_Witness ==
    /\ pc = "returned"
    /\ ev.op = "F_function"
    /\ ev.bits = GroverTarget
    /\ ev.p = 2
    /\ ev.params = <<PI, PI, PI, PI>>
    /\ REq(ev.cost, [x |-> -59536, y |-> 0, e |-> 32])

====
